---- MODULE Spec2Model ----
(***************************************************************************)
(* A model of the filipeX tree-walking evaluator: the value model, the     *)
(* type tags, the chained scopes (Context), the single-slot error handler, *)
(* the built-in table and the statement / expression evaluator.            *)
(*                                                                         *)
(* The evaluator is modelled in big steps: every Rust evaluation function  *)
(* is a recursive operator taking the evaluator state `st` and returning   *)
(* the state after it together with the Option<Object> it yields.  One     *)
(* action of the model is one iteration of the loop of Evaluator::eval.    *)
(***************************************************************************)
EXTENDS Integers, Sequences, FiniteSets, TLC

VARIABLES heap, env, error, out, log, output, result, pc, n, last

vars == <<heap, env, error, out, log, output, result, pc, n, last>>

-----------------------------------------------------------------------------
(* Bounds of the model.                                                    *)

\* longest program (number of top-level statements) that is evaluated
MaxProgram == 2
\* largest integer literal of the enumerated programs
MaxInt == 2
\* deepest chain of child scopes the scope specification enters
MaxDepth == 2
\* width in bits of the model's Int (the source's i64, scaled down)
IntBits == 8

-----------------------------------------------------------------------------
(* Value model: Object.  Every object is a record                          *)
(*   kind : the variant of the Rust enum,                                  *)
(*   val  : its payload as a tuple of integers,                            *)
(*   arg  : its payload when that is a name (a built-in, a type tag),      *)
(*   ret  : TRUE when the object is wrapped in Object::RetVal.             *)
(* A Float's payload is a rational <<num, den>> in lowest terms with       *)
(* den > 0; den = 0 stands for a non-finite result (inf, -inf, NaN by the  *)
(* sign of num).  A String's payload is the tuple of its character codes.  *)

Obj(kind, val, arg) == [kind |-> kind, val |-> val, arg |-> arg, ret |-> FALSE]

ObjNull == Obj("Null", <<>>, "")
ObjInt(v) == Obj("Int", <<v>>, "")
ObjFloat(num, den) == Obj("Float", <<num, den>>, "")
ObjString(s) == Obj("String", s, "")
ObjBoolean(b) == Obj("Boolean", <<IF b THEN 1 ELSE 0>>, "")
BuiltInFunction(name) == Obj("BuiltInFunction", <<>>, name)
UserDefinedFunction(fn) == Obj("UserDefinedFunction", <<fn>>, "")
ObjType(t) == Obj("Type", <<>>, t)
ObjRange(start, end, step) == Obj("Range", <<start, end, step>>, "")
RetVal(o) == [o EXCEPT !.ret = TRUE]
Unwrap(o) == [o EXCEPT !.ret = FALSE]

\* Option<Object>::None
NoValue == Obj("None", <<>>, "")
IsSome(o) == o.kind # "None"
IsNone(o) == o.kind = "None"

-----------------------------------------------------------------------------
(* Type system.                                                            *)

Type == {"Null", "Void", "Int", "Float", "String", "Boolean", "Function",
         "Range", "Array", "TypeAnnot", "Unknown"}

object_to_type(object) ==
    CASE object.kind = "Null" -> "Null"
      [] object.kind = "String" -> "String"
      [] object.kind = "Boolean" -> "Boolean"
      [] object.kind = "BuiltInFunction" -> "Function"
      [] object.kind = "UserDefinedFunction" -> "Function"
      [] object.kind = "Type" -> "TypeAnnot"
      [] object.kind = "Range" -> "Range"
      [] object.kind = "Int" -> "Int"
      [] object.kind = "Float" -> "Float"
      [] object.kind = "Array" -> "Array"

\* a comparison that lets the two number types pass as one
has_same_type_numeric(lhs, rhs) ==
    \/ object_to_type(lhs) = object_to_type(rhs)
    \/ {object_to_type(lhs), object_to_type(rhs)} = {"Int", "Float"}

has_same_type(lhs, rhs) == object_to_type(lhs) = object_to_type(rhs)

-----------------------------------------------------------------------------

-----------------------------------------------------------------------------
(* Scopes: Context.  The Rc<RefCell<Context>> nodes live in `heap`, a      *)
(* sequence of contexts; a reference to a context is its index, and the    *)
(* parent of the outermost context is 0 (None).                            *)

ObjectInfo(value, is_assignable, type_) ==
    [value |-> value, is_assignable |-> is_assignable, type_ |-> type_]

\* Option<ObjectInfo>::None
NoInfo == ObjectInfo(NoValue, FALSE, "None")

EmptyStore == [name \in {} |-> NoInfo]

make_from(parent, type_) == [type_ |-> type_, parent |-> parent, store |-> EmptyStore]

make_global(store) == [type_ |-> "Global", parent |-> 0, store |-> store]

has(ctx, name) == name \in DOMAIN ctx.store

\* an insert that replaces the binding a name already has
set_overwrite(ctx, name, type_, value, is_assignable) ==
    [ctx |-> [ctx EXCEPT !.store =
                 (name :> ObjectInfo(value, is_assignable, type_)) @@ ctx.store],
     ok |-> TRUE]

\* Context::set: the context after the call and the bool it returns
set(ctx, name, type_, value, is_assignable) ==
    IF name \in DOMAIN ctx.store
    THEN [ctx |-> ctx, ok |-> FALSE]
    ELSE [ctx |-> [ctx EXCEPT !.store =
                      (name :> ObjectInfo(value, is_assignable, type_)) @@ ctx.store],
          ok |-> TRUE]

RECURSIVE mutate_unchecked(_, _, _, _)
\* a write that does not look at is_assignable
mutate_unchecked(hp, h, name, value) ==
    IF name \in DOMAIN hp[h].store
    THEN [heap |-> [hp EXCEPT ![h].store[name].value = value], ok |-> TRUE]
    ELSE IF hp[h].parent # 0
         THEN mutate_unchecked(hp, hp[h].parent, name, value)
         ELSE [heap |-> hp, ok |-> FALSE]

\* a write that binds the name in the context it is called on
mutate_local(hp, h, name, value) ==
    [heap |-> [hp EXCEPT ![h].store =
                  (name :> ObjectInfo(value, TRUE, object_to_type(value))) @@ @],
     ok |-> TRUE]

RECURSIVE mutate(_, _, _, _)
\* Context::mutate on the context heap[h]: the heap after the call and the bool
mutate(hp, h, name, value) ==
    IF name \in DOMAIN hp[h].store
    THEN IF ~hp[h].store[name].is_assignable
         THEN [heap |-> hp, ok |-> FALSE]
         ELSE [heap |-> [hp EXCEPT ![h].store[name].value = value], ok |-> TRUE]
    ELSE IF hp[h].parent # 0
         THEN mutate(hp, hp[h].parent, name, value)
         ELSE [heap |-> hp, ok |-> FALSE]

RECURSIVE resolve(_, _, _)
\* Context::resolve on the context heap[h]
resolve(hp, h, name) ==
    IF name \in DOMAIN hp[h].store
    THEN hp[h].store[name]
    ELSE IF hp[h].parent # 0
         THEN resolve(hp, hp[h].parent, name)
         ELSE NoInfo

-----------------------------------------------------------------------------
(* Built-in table.                                                         *)

builtins ==
    [name \in {"print", "exit", "len", "random", "typeof", "range"} |->
        ObjectInfo(BuiltInFunction(name), FALSE, "Function")]
    @@ ("true" :> ObjectInfo(ObjBoolean(TRUE), FALSE, "Boolean"))
    @@ ("false" :> ObjectInfo(ObjBoolean(FALSE), FALSE, "Boolean"))
    @@ ("null" :> ObjectInfo(ObjNull, FALSE, "Null"))

-----------------------------------------------------------------------------
(* Abstract syntax (the parser's output, consumed by the evaluator).       *)

Infix == {"Plus", "Minus", "Devide", "Multiply", "Remainder", "Equal",
          "LessThan", "LessOrEqual", "GratherThan", "GratherOrEqual", "NotEqual"}
Prefix == {"Not", "Plus", "Minus"}
Postfix == {"Increment", "Decrement"}

Literal(object) == [e |-> "Literal", literal |-> object]
Identifier(name) == [name |-> name, e |-> "Identifier"]
Call(func, args) == [e |-> "Call", func |-> func, args |-> args]
InfixExpr(lhs, infix, rhs) == [lhs |-> lhs, rhs |-> rhs, e |-> "Infix", infix |-> infix]
PrefixExpr(prefix, expr) == [e |-> "Prefix", prefix |-> prefix, expr |-> expr]
PostfixExpr(expr, postfix) == [e |-> "Postfix", expr |-> expr, postfix |-> postfix]
Assign(name, expr) == [name |-> name, e |-> "Assign", expr |-> expr]
\* Option<Expr>::None
NoExpr == [e |-> "None"]

\* var_type "" is a declaration without a type annotation
Let(name, var_type, expr) == [s |-> "Let", name |-> name, expr |-> expr, var_type |-> var_type]
\* the parameters, body and return type of a function are FuncTable[fn]
Func(name, fn) == [s |-> "Func", name |-> name, fn |-> fn]
Return(expr) == [s |-> "Return", expr |-> expr]
ExprStmt(expr) == [s |-> "Expr", expr |-> expr]
\* alternative is <<>> (None) or <<block>> (Some(block))
If(condition, consequence, alternative) ==
    [s |-> "If", condition |-> condition, consequence |-> consequence,
     alternative |-> alternative]
ForLoop(cursor, iterable, block) ==
    [s |-> "ForLoop", cursor |-> cursor, iterable |-> iterable, block |-> block]

-----------------------------------------------------------------------------
(* Evaluator state, threaded through the evaluation functions:             *)
(*   heap, env : the contexts and the current one (Evaluator.env),         *)
(*   error     : the slot of the error handler,                            *)
(*   out       : the lines written to the output sink by print,            *)
(*   panic     : TRUE once the host has faulted (integer division by 0),   *)
(*   depth     : the number of function calls being evaluated,             *)
(*   log       : what the evaluation did, in order (observation only).     *)

NoError == [kind |-> "", msg |-> <<>>]

R(st, val) == [val |-> val, st |-> st]

has_error(st) == st.error.kind # ""

\* an entry of the log: what happened (ev, name, val), at which call depth,
\* in which scope, and whether an error was pending at that moment
Event(st, ev, name, val) ==
    [val |-> val, name |-> name, ev |-> ev, call |-> st.depth,
     scope |-> st.env, err |-> has_error(st)]

Note(st, ev, name, val) == [st EXCEPT !.log = Append(@, Event(st, ev, name, val))]

\* the handler holds one diagnostic: recording one replaces the slot
set_error(st, err) ==
    [Note(st, "error", err.kind, NoValue) EXCEPT !.error = err]

set_name_error(st, msg) == set_error(st, [kind |-> "NameError", msg |-> msg])

set_type_error(st, msg) == set_error(st, [kind |-> "TypeError", msg |-> msg])

(* Environment: the evaluator's handle on the current scope.               *)

\* the log keeps, of a binding that was just written, the type tag stored
\* with it (as the name of the entry) and the value it holds
Bound(st, info) == Note(st, "bind", info.type_, info.value)

add_entry(st, name, value, type_, is_assignable) ==
    LET r == set(st.heap[st.env], name, type_, value, is_assignable)
    IN  [ok |-> r.ok,
         st |-> IF r.ok THEN Bound([st EXCEPT !.heap[st.env] = r.ctx], r.ctx.store[name])
                ELSE st]

update_entry(st, name, value) ==
    LET r == mutate(st.heap, st.env, name, value)
    IN  [ok |-> r.ok,
         st |-> IF r.ok THEN Bound([st EXCEPT !.heap = r.heap], resolve(r.heap, st.env, name))
                ELSE st]

Environment_resolve(st, name) == resolve(st.heap, st.env, name)

is_declared(st, name) == Environment_resolve(st, name) # NoInfo

get_typeof(st, name) == Environment_resolve(st, name).type_

\* *self.env = Environment::empty(Some(self.env.clone()))
Environment_empty(st, type_) ==
    [st EXCEPT !.heap = Append(@, make_from(st.env, type_)),
               !.env = Len(st.heap) + 1]

\* *self.env = scope: the scopes entered since are dropped
Environment_restore(st, scope) ==
    [st EXCEPT !.heap = SubSeq(@, 1, scope), !.env = scope]

-----------------------------------------------------------------------------
(* Host arithmetic.                                                        *)

Abs(a) == IF a < 0 THEN -a ELSE a
Sgn(a) == IF a < 0 THEN -1 ELSE IF a > 0 THEN 1 ELSE 0

\* the range of Int
I64Min == -(2 ^ (IntBits - 1))
I64Max == 2 ^ (IntBits - 1) - 1

\* two's complement wrap-around
Wrap(v) == ((v - I64Min) % (2 ^ IntBits)) + I64Min

\* the Int an arithmetic operation yields for the exact result v: outside
\* the range the host faults when the build checks overflow and wraps
\* around when it does not
i64(st, v) ==
    IF I64Min <= v /\ v <= I64Max THEN R(st, ObjInt(v))
    ELSE IF st.overflow_checks
    THEN R([st EXCEPT !.panic = TRUE, !.overflowed = TRUE], NoValue)
    ELSE R([st EXCEPT !.overflowed = TRUE], ObjInt(Wrap(v)))

\* i64 division and remainder truncate toward zero
TDiv(a, b) == Sgn(a) * Sgn(b) * (Abs(a) \div Abs(b))
TRem(a, b) == a - b * TDiv(a, b)

RECURSIVE GCD(_, _)
GCD(a, b) == IF b = 0 THEN a ELSE GCD(b, a % b)

\* f64 values as rationals <<num, den>>; den = 0: inf, -inf or NaN by num
FNorm(num, den) ==
    IF den = 0 THEN <<Sgn(num), 0>>
    ELSE LET g == GCD(Abs(num), Abs(den))
         IN  <<Sgn(den) * (num \div g), Abs(den) \div g>>
FNaN == <<0, 0>>
IsNaN(a) == a = FNaN
FNeg(a) == <<-a[1], a[2]>>
FAdd(a, b) ==
    IF IsNaN(a) \/ IsNaN(b) THEN FNaN
    ELSE IF a[2] = 0 /\ b[2] = 0 THEN (IF a = b THEN a ELSE FNaN)
    ELSE IF a[2] = 0 THEN a
    ELSE IF b[2] = 0 THEN b
    ELSE FNorm(a[1] * b[2] + b[1] * a[2], a[2] * b[2])
FSub(a, b) == FAdd(a, FNeg(b))
FMul(a, b) == FNorm(a[1] * b[1], a[2] * b[2])
FDiv(a, b) ==
    IF IsNaN(a) \/ IsNaN(b) THEN FNaN
    ELSE IF a[2] = 0
         THEN (IF b[2] = 0 THEN FNaN ELSE <<IF b[1] < 0 THEN -a[1] ELSE a[1], 0>>)
    ELSE FNorm(a[1] * b[2], a[2] * b[1])
FRem(a, b) ==
    IF a[2] = 0 \/ IsNaN(b) \/ b[1] = 0 THEN FNaN
    ELSE IF b[2] = 0 THEN a
    ELSE FSub(a, FMul(<<TDiv(a[1] * b[2], a[2] * b[1]), 1>>, b))
FEq(a, b) == ~IsNaN(a) /\ ~IsNaN(b) /\ a = b
FLt(a, b) ==
    /\ ~IsNaN(a)
    /\ ~IsNaN(b)
    /\ IF a[2] = 0 /\ b[2] = 0 THEN a[1] < b[1] ELSE a[1] * b[2] < b[1] * a[2]

-----------------------------------------------------------------------------
(* Infix operators per shared type.  Each yields the state after it and    *)
(* the Object it returns (these functions return Object, not Option).      *)

eval_infix_string_expr(st, lhs, infix, rhs) ==
    CASE infix = "Plus" -> R(st, ObjString(lhs \o rhs))
      [] infix = "NotEqual" -> R(st, ObjBoolean(lhs # rhs))
      [] infix = "Equal" -> R(st, ObjBoolean(lhs = rhs))
      [] OTHER ->
           R(set_type_error(st, <<"'", infix, "' operation not implemented for type string">>),
             ObjNull)

eval_infix_int_expr(st, lhs_val, infix, rhs_val) ==
    CASE infix = "Plus" -> i64(st, lhs_val + rhs_val)
      [] infix = "Minus" -> i64(st, lhs_val - rhs_val)
      [] infix = "Devide" ->
           IF rhs_val = 0 \/ (lhs_val = I64Min /\ rhs_val = -1)
           THEN R([st EXCEPT !.panic = TRUE], ObjNull)
           ELSE R(st, ObjInt(TDiv(lhs_val, rhs_val)))
      [] infix = "Multiply" -> i64(st, lhs_val * rhs_val)
      [] infix = "Remainder" ->
           IF rhs_val = 0 \/ (lhs_val = I64Min /\ rhs_val = -1)
           THEN R([st EXCEPT !.panic = TRUE], ObjNull)
           ELSE R(st, ObjInt(TRem(lhs_val, rhs_val)))
      [] infix = "Equal" -> R(st, ObjBoolean(lhs_val = rhs_val))
      [] infix = "LessThan" -> R(st, ObjBoolean(lhs_val < rhs_val))
      [] infix = "LessOrEqual" -> R(st, ObjBoolean(lhs_val <= rhs_val))
      [] infix = "GratherThan" -> R(st, ObjBoolean(lhs_val > rhs_val))
      [] infix = "GratherOrEqual" -> R(st, ObjBoolean(lhs_val >= rhs_val))
      [] infix = "NotEqual" -> R(st, ObjBoolean(lhs_val # rhs_val))

eval_infix_float_expr(st, lhs_val, infix, rhs_val) ==
    LET FloatOf(f) == ObjFloat(f[1], f[2]) IN
    CASE infix = "Plus" -> R(st, FloatOf(FAdd(lhs_val, rhs_val)))
      [] infix = "Minus" -> R(st, FloatOf(FSub(lhs_val, rhs_val)))
      [] infix = "Devide" -> R(st, FloatOf(FDiv(lhs_val, rhs_val)))
      [] infix = "Multiply" -> R(st, FloatOf(FMul(lhs_val, rhs_val)))
      [] infix = "Remainder" -> R(st, FloatOf(FRem(lhs_val, rhs_val)))
      [] infix = "Equal" -> R(st, ObjBoolean(FEq(lhs_val, rhs_val)))
      [] infix = "LessThan" -> R(st, ObjBoolean(FLt(lhs_val, rhs_val)))
      [] infix = "LessOrEqual" ->
           R(st, ObjBoolean(FLt(lhs_val, rhs_val) \/ FEq(lhs_val, rhs_val)))
      [] infix = "GratherThan" -> R(st, ObjBoolean(FLt(rhs_val, lhs_val)))
      [] infix = "GratherOrEqual" ->
           R(st, ObjBoolean(FLt(rhs_val, lhs_val) \/ FEq(lhs_val, rhs_val)))
      [] infix = "NotEqual" -> R(st, ObjBoolean(~FEq(lhs_val, rhs_val)))

\* lhs_val, rhs_val are 0 (false) or 1 (true): the host orders false < true
eval_infix_bool_expr(st, lhs_val, infix, rhs_val) ==
    CASE infix = "Equal" -> R(st, ObjBoolean(lhs_val = rhs_val))
      [] infix = "LessThan" -> R(st, ObjBoolean(lhs_val < rhs_val))
      [] infix = "LessOrEqual" -> R(st, ObjBoolean(lhs_val <= rhs_val))
      [] infix = "GratherThan" -> R(st, ObjBoolean(lhs_val > rhs_val))
      [] infix = "GratherOrEqual" -> R(st, ObjBoolean(lhs_val >= rhs_val))
      [] infix = "NotEqual" -> R(st, ObjBoolean(lhs_val # rhs_val))
      [] OTHER ->
           R(set_type_error(st, <<"'", infix, "' operation not implemented for type boolean">>),
             ObjNull)

\* the dispatch of eval_infix_expr once both operands are evaluated
eval_infix_values(st, lhs, infix, rhs) ==
    IF ~has_same_type(lhs, rhs)
    THEN R(set_type_error(st, <<"'", infix, "' operation not allowed between types ",
                                object_to_type(lhs), " and ", object_to_type(rhs)>>),
           NoValue)
    ELSE CASE lhs.kind = "Int" /\ ~lhs.ret ->
                IF rhs.kind = "Int" /\ ~rhs.ret
                THEN eval_infix_int_expr(st, lhs.val[1], infix, rhs.val[1])
                ELSE R(st, NoValue)
           [] lhs.kind = "Float" /\ ~lhs.ret ->
                IF rhs.kind = "Float" /\ ~rhs.ret
                THEN eval_infix_float_expr(st, lhs.val, infix, rhs.val)
                ELSE R(st, NoValue)
           [] lhs.kind = "String" /\ ~lhs.ret ->
                IF rhs.kind = "String" /\ ~rhs.ret
                THEN eval_infix_string_expr(st, lhs.val, infix, rhs.val)
                ELSE R(st, NoValue)
           [] lhs.kind = "Boolean" /\ ~lhs.ret ->
                IF rhs.kind = "Boolean" /\ ~rhs.ret
                THEN eval_infix_bool_expr(st, lhs.val[1], infix, rhs.val[1])
                ELSE R(st, NoValue)
           [] OTHER -> R(st, NoValue)

-----------------------------------------------------------------------------
(* Built-in functions.  A built-in receives the evaluated arguments (each  *)
(* an ObjectInfo) and returns BuiltInFuncReturnValue: an Object or an      *)
(* Error; print also writes a line to the sink.                            *)

ReturnObject(st, object) == [error |-> NoError, object |-> object, st |-> st]
ReturnError(st, kind, msg) == [error |-> [kind |-> kind, msg |-> msg], object |-> NoValue, st |-> st]

\* a line of the sink is the tuple of the objects printed on it
filipe_print(st, args) ==
    ReturnObject([st EXCEPT !.out = Append(@, [i \in 1..Len(args) |-> args[i].value])],
                 ObjNull)

filipe_len(st, args) ==
    IF Len(args) # 1
    THEN ReturnError(st, "TypeError", <<"'len' expects 1 arg">>)
    ELSE IF args[1].value.kind = "String" /\ ~args[1].value.ret
         THEN ReturnObject(st, ObjInt(Len(args[1].value.val)))
         ELSE ReturnError(st, "TypeError", <<"'len' only accepts iterable types">>)

filipe_typeof(st, args) ==
    IF Len(args) # 1
    THEN ReturnError(st, "TypeError", <<"'typeof' expects 1 arg">>)
    ELSE ReturnObject(st, ObjType(args[1].type_))

filipe_range(st, args) ==
    IF Len(args) > 3 \/ Len(args) < 2
    THEN ReturnError(st, "TypeError", <<"function 'range' takes 2 or 3 argus">>)
    ELSE IF \E i \in 1..Len(args) : args[i].type_ # "Int"
         THEN ReturnError(st, "TypeError",
                          <<"args for function 'range' must be of type number">>)
         ELSE LET built_args ==
                      [i \in 1..Len(args) |->
                          IF args[i].value.kind = "Int" /\ ~args[i].value.ret
                          THEN args[i].value.val[1]
                          ELSE 0]
                  with_step == IF Len(built_args) < 3 THEN Append(built_args, 1)
                               ELSE built_args
              IN  ReturnObject(st, ObjRange(with_step[1], with_step[2], with_step[3]))

\* the native function a BuiltInFunction object points to (exit and random
\* are bound but never called by the programs enumerated below)
call_builtin(st, name, args) ==
    CASE name = "print" -> filipe_print(st, args)
      [] name = "len" -> filipe_len(st, args)
      [] name = "typeof" -> filipe_typeof(st, args)
      [] name = "range" -> filipe_range(st, args)

-----------------------------------------------------------------------------
(* User-defined functions of the enumerated programs: the parameters, the  *)
(* body and the return type that Stmt::Func(name, params, body, ret_type)  *)
(* carries.  They take no parameters.                                      *)

PrintCall(expr) == ExprStmt(Call(Identifier("print"), <<expr>>))
RangeCall(start, end) ==
    Call(Identifier("range"), <<Literal(ObjInt(start)), Literal(ObjInt(end))>>)
FuncDecl(body) == [body |-> body, params |-> <<>>, return_type |-> ""]

FuncTable ==
    << \* return at the top of the body: print(2) is not reached
       FuncDecl(<<Return(Literal(ObjInt(1))), PrintCall(Literal(ObjInt(2)))>>),
       \* return inside an if inside the body
       FuncDecl(<<If(Literal(ObjInt(1)), <<Return(Literal(ObjInt(1)))>>, <<>>),
                  PrintCall(Literal(ObjInt(2))),
                  Return(Literal(ObjInt(3)))>>),
       \* the if is not taken
       FuncDecl(<<If(Literal(ObjInt(0)), <<Return(Literal(ObjInt(1)))>>, <<>>),
                  Return(Literal(ObjInt(3)))>>),
       \* return inside an if inside an if
       FuncDecl(<<If(Literal(ObjInt(1)),
                     <<If(Literal(ObjInt(1)), <<Return(Literal(ObjInt(1)))>>, <<>>),
                       PrintCall(Literal(ObjInt(2)))>>,
                     <<>>),
                  Return(Literal(ObjInt(3)))>>),
       \* return inside a for loop
       FuncDecl(<<ForLoop("i", RangeCall(0, MaxInt), <<Return(Identifier("i"))>>)>>),
       \* no return: the value of the last statement
       FuncDecl(<<ExprStmt(Literal(ObjInt(1)))>>) >>

-----------------------------------------------------------------------------
(* Expressions.                                                            *)

expr_to_type(st, expr) ==
    CASE expr.e = "Literal" -> object_to_type(expr.literal)
      [] expr.e = "Identifier" -> get_typeof(st, expr.name)
      [] OTHER -> "None"

eval_literal_expr(literal) ==
    CASE literal.kind = "String" -> ObjString(literal.val)
      [] literal.kind = "Boolean" -> ObjBoolean(literal.val[1] = 1)
      [] literal.kind = "Null" -> ObjNull
      [] literal.kind = "Int" -> ObjInt(literal.val[1])
      [] literal.kind = "Float" -> ObjFloat(literal.val[1], literal.val[2])

resolve_identfier(st, name) ==
    LET object == Environment_resolve(st, name)
    IN  IF object = NoInfo
        THEN R(set_name_error(st, <<"'", name, "' is not declared">>), NoValue)
        ELSE R(st, object.value)

eval_not_prefix(st, evaluated_expr) ==
    CASE evaluated_expr.kind = "Null" /\ ~evaluated_expr.ret -> R(st, ObjBoolean(TRUE))
      [] evaluated_expr.kind = "Boolean" /\ ~evaluated_expr.ret ->
           R(st, ObjBoolean(evaluated_expr.val[1] = 0))
      [] OTHER -> R(st, ObjBoolean(FALSE))

eval_plus_prefix(st, prefix, evaluated_expr) ==
    CASE evaluated_expr.kind = "Int" /\ ~evaluated_expr.ret ->
           R(st, ObjInt(evaluated_expr.val[1]))
      [] evaluated_expr.kind = "Float" /\ ~evaluated_expr.ret ->
           R(st, ObjFloat(evaluated_expr.val[1], evaluated_expr.val[2]))
      [] OTHER -> R(set_type_error(st, <<"'", prefix, "' prefix is for type number">>), NoValue)

eval_minus_prefix(st, prefix, evaluated_expr) ==
    CASE evaluated_expr.kind = "Int" /\ ~evaluated_expr.ret ->
           i64(st, -evaluated_expr.val[1])
      [] evaluated_expr.kind = "Float" /\ ~evaluated_expr.ret ->
           R(st, ObjFloat(-evaluated_expr.val[1], evaluated_expr.val[2]))
      [] OTHER -> R(set_type_error(st, <<"'", prefix, "' prefix is for type number">>), NoValue)

\* a truth test for which only Null and false are false
is_truthy_numbers(object) ==
    CASE object.kind = "Null" /\ ~object.ret -> FALSE
      [] object.kind = "Boolean" /\ ~object.ret -> object.val[1] # 0
      [] OTHER -> TRUE

is_truthy(object) ==
    CASE object.kind = "Null" /\ ~object.ret -> FALSE
      [] object.kind = "Boolean" /\ ~object.ret -> object.val[1] # 0
      [] object.kind = "Int" /\ ~object.ret -> object.val[1] # 0
      [] object.kind = "Float" /\ ~object.ret -> ~FEq(object.val, <<0, 1>>)
      [] OTHER -> TRUE

(* An evaluation function whose Rust body binds the result of a nested    *)
(* evaluation (`let x = match self.eval_expr(..)`) and goes on with it is  *)
(* written as the call of a continuation operator on that result: the     *)
(* function f is f followed by f_<step>, the rest of its body.            *)

RECURSIVE eval_stmt(_, _), eval_expr(_, _), eval_block_from(_, _, _, _),
          eval_range_iter(_, _, _, _, _, _), eval_args(_, _, _, _)

\* the log keeps what an expression on values yielded
Observe(r, ev, name) == R(Note(r.st, ev, name, r.val), r.val)

\* a postfix operator that takes a Float for a number as well
eval_postfix_expr_apply_numeric(evaluated_expr, postfix) ==
    IF IsNone(evaluated_expr.val) THEN R(evaluated_expr.st, NoValue)
    ELSE IF evaluated_expr.val.kind = "Float"
    THEN R(evaluated_expr.st,
           ObjFloat(evaluated_expr.val.val[1] + evaluated_expr.val.val[2],
                    evaluated_expr.val.val[2]))
    ELSE IF evaluated_expr.val.kind # "Int"
    THEN R(set_type_error(evaluated_expr.st,
               <<"'", postfix, "' operation is only allowed for type 'number'">>),
           NoValue)
    ELSE CASE postfix = "Increment" ->
                i64(evaluated_expr.st, evaluated_expr.val.val[1] + 1)
           [] postfix = "Decrement" ->
                i64(evaluated_expr.st, evaluated_expr.val.val[1] - 1)

eval_postfix_expr_apply(evaluated_expr, postfix) ==
    IF IsNone(evaluated_expr.val) THEN R(evaluated_expr.st, NoValue)
    ELSE IF ~(evaluated_expr.val.kind = "Int" /\ ~evaluated_expr.val.ret)
    THEN R(set_type_error(evaluated_expr.st,
               <<"'", postfix, "' operation is only allowed for type 'number'">>),
           NoValue)
    ELSE CASE postfix = "Increment" ->
                i64(evaluated_expr.st, evaluated_expr.val.val[1] + 1)
           [] postfix = "Decrement" ->
                i64(evaluated_expr.st, evaluated_expr.val.val[1] - 1)

eval_postfix_expr(st, expr, postfix) ==
    Observe(eval_postfix_expr_apply(eval_expr(st, expr), postfix), "postfix", postfix)

eval_prefix_expr_apply(evaluated_expr, prefix) ==
    IF IsNone(evaluated_expr.val) THEN R(evaluated_expr.st, NoValue)
    ELSE CASE prefix = "Not" -> eval_not_prefix(evaluated_expr.st, evaluated_expr.val)
           [] prefix = "Plus" ->
                eval_plus_prefix(evaluated_expr.st, prefix, evaluated_expr.val)
           [] prefix = "Minus" ->
                eval_minus_prefix(evaluated_expr.st, prefix, evaluated_expr.val)

eval_prefix_expr(st, prefix, expr) ==
    eval_prefix_expr_apply(eval_expr(st, expr), prefix)

eval_infix_expr_apply(lhs, infix, rhs) ==
    IF IsNone(lhs.val) \/ IsNone(rhs.val) THEN R(rhs.st, NoValue)
    ELSE Observe(eval_infix_values(rhs.st, lhs.val, infix, rhs.val), "infix", infix)

\* the right operand is evaluated in the state the left operand left
eval_infix_expr_rhs(lhs, infix, rhs) ==
    eval_infix_expr_apply(lhs, infix, eval_expr(lhs.st, rhs))

eval_infix_expr(st, lhs, infix, rhs) ==
    eval_infix_expr_rhs(eval_expr(st, lhs), infix, rhs)

eval_assign_expr_update(updated, name, value) ==
    IF ~updated.ok
    THEN R(set_name_error(updated.st, <<"'", name, "' is not assignable">>), NoValue)
    ELSE R(Note(updated.st, "assign", name, value), NoValue)

\* the assignment without the comparison of the two types
eval_assign_expr_value_untyped(value, name) ==
    IF IsNone(value.val) THEN R(value.st, NoValue)
    ELSE eval_assign_expr_update(update_entry(value.st, name, value.val), name, value.val)

eval_assign_expr_value(value, name) ==
    IF IsNone(value.val) THEN R(value.st, NoValue)
    ELSE IF get_typeof(value.st, name) # object_to_type(value.val)
    THEN R(set_type_error(value.st,
               <<"can't assign value of type '", get_typeof(value.st, name),
                 "' to value of type '", object_to_type(value.val), "'">>),
           NoValue)
    ELSE eval_assign_expr_update(update_entry(value.st, name, value.val), name, value.val)

eval_assign_expr(st, name, expr) ==
    IF ~is_declared(st, name)
    THEN R(set_name_error(st, <<"'", name, "' is not declared">>), NoValue)
    ELSE eval_assign_expr_value(eval_expr(st, expr), name)

(* Calls.                                                                  *)

\* the type tag an argument carries: the tag of the literal or of the
\* binding the argument names, else the tag of its value
arg_type(st, expr, value) ==
    IF expr_to_type(st, expr) = "None" THEN object_to_type(value)
    ELSE expr_to_type(st, expr)

eval_args_next(a, args, i, infos) ==
    IF IsNone(a.val) THEN [ok |-> FALSE, st |-> a.st, infos |-> infos]
    ELSE eval_args(a.st, args, i + 1,
                   Append(infos, ObjectInfo(a.val, FALSE, arg_type(a.st, args[i], a.val))))

\* the arguments args[i..] of a call, evaluated left to right; ok is FALSE
\* as soon as one of them yields no value
eval_args(st, args, i, infos) ==
    IF i > Len(args) THEN [ok |-> TRUE, st |-> st, infos |-> infos]
    ELSE eval_args_next(eval_expr(st, args[i]), args, i, infos)

call_user_function_exit(st, scope, yielded) ==
    R([Environment_restore(Note(st, "callexit", "", yielded), scope)
          EXCEPT !.depth = @ - 1],
      yielded)

call_user_function_return(body, scope, return_type) ==
    call_user_function_exit(body.st, scope,
                            IF return_type = "Void" THEN NoValue ELSE body.val)

\* a user-defined function runs its body in a child scope of the current
\* one and yields what the body block yields
call_user_function(st, fn) ==
    call_user_function_return(
        eval_block_from(Note([Environment_empty(st, "Function") EXCEPT !.depth = @ + 1],
                             "call", "", NoValue),
                        FuncTable[fn].body, 1, NoValue),
        st.env, FuncTable[fn].return_type)

\* a built-in's Error is moved into the error handler
call_builtin_result(b) ==
    IF b.error # NoError THEN R(set_error(b.st, b.error), NoValue)
    ELSE R(b.st, b.object)

eval_call_expr_dispatch(callee, a) ==
    IF ~a.ok THEN R(a.st, NoValue)
    ELSE IF callee.kind = "BuiltInFunction"
    THEN call_builtin_result(call_builtin(a.st, callee.arg, a.infos))
    ELSE call_user_function(a.st, callee.val[1])

eval_call_expr_callee(f, args) ==
    IF IsNone(f.val) THEN R(f.st, NoValue)
    ELSE IF object_to_type(f.val) # "Function"
    THEN R(set_type_error(f.st, <<"'", object_to_type(f.val), "' is not callable">>),
           NoValue)
    ELSE eval_call_expr_dispatch(f.val, eval_args(f.st, args, 1, <<>>))

eval_call_expr(st, func, args) == eval_call_expr_callee(eval_expr(st, func), args)

eval_expr_match(st, expr) ==
    CASE expr.e = "Literal" -> R(st, eval_literal_expr(expr.literal))
      [] expr.e = "Identifier" -> resolve_identfier(st, expr.name)
      [] expr.e = "Call" -> eval_call_expr(st, expr.func, expr.args)
      [] expr.e = "Infix" -> eval_infix_expr(st, expr.lhs, expr.infix, expr.rhs)
      [] expr.e = "Prefix" -> eval_prefix_expr(st, expr.prefix, expr.expr)
      [] expr.e = "Postfix" -> eval_postfix_expr(st, expr.expr, expr.postfix)
      [] expr.e = "Assign" -> eval_assign_expr(st, expr.name, expr.expr)

\* nothing is evaluated once the host has faulted
eval_expr(st, expr) ==
    IF st.panic THEN R(st, NoValue)
    ELSE eval_expr_match(Note(st, "expr", expr.e, NoValue), expr)

-----------------------------------------------------------------------------
(* Statements.                                                             *)

\* a declaration fails when the current scope already holds the name
declared(added, name) ==
    IF added.ok THEN added.st
    ELSE set_name_error(added.st, <<"'", name, "' is already declared">>)

eval_let_stmt_bind(value, name, var_type) ==
    IF IsNone(value.val) THEN value.st
    ELSE IF var_type # "" /\ var_type # object_to_type(value.val)
    THEN set_type_error(value.st,
             <<"can't assign value of type '", object_to_type(value.val),
               "' to variable of type '", var_type, "'">>)
    ELSE declared(add_entry(value.st, name, value.val, object_to_type(value.val), TRUE),
                  name)

\* let: the initialiser is evaluated and the name is bound, mutable, in the
\* current scope
eval_let_stmt(st, name, var_type, expr) ==
    eval_let_stmt_bind(eval_expr(st, expr), name, var_type)

eval_func_def(st, name, fn) ==
    declared(add_entry(st, name, UserDefinedFunction(fn), "Function", FALSE), name)

eval_return_value(object) ==
    IF IsNone(object.val) THEN R(object.st, NoValue)
    ELSE R(Note(object.st, "return", "", object.val), RetVal(object.val))

eval_return(st, expr) ==
    IF expr = NoExpr THEN R(Note(st, "return", "", ObjNull), RetVal(ObjNull))
    ELSE eval_return_value(eval_expr(st, expr))

eval_block_next(object, block, i) ==
    IF IsSome(object.val) /\ object.val.ret
    THEN R(object.st, Unwrap(object.val))
    ELSE eval_block_from(object.st, block, i + 1, object.val)

\* the statements block[i..] of a block, res being the block's value so far
eval_block_from(st, block, i, res) ==
    IF i > Len(block) THEN R(st, res)
    ELSE eval_block_next(eval_stmt(st, block[i]), block, i)

eval_block_stmt(st, block) == eval_block_from(st, block, 1, NoValue)

eval_if_stmt_branch(evaluated_cond, consequence, alternative) ==
    IF IsNone(evaluated_cond.val) THEN R(evaluated_cond.st, NoValue)
    ELSE IF is_truthy(evaluated_cond.val)
    THEN eval_block_stmt(Note(evaluated_cond.st, "then", "", NoValue), consequence)
    ELSE IF alternative # <<>>
    THEN eval_block_stmt(Note(evaluated_cond.st, "else", "", NoValue), alternative[1])
    ELSE R(evaluated_cond.st, NoValue)

eval_if_stmt(st, condition, consequence, alternative) ==
    eval_if_stmt_branch(eval_expr(st, condition), consequence, alternative)

eval_range_increment(st, old, cursor, i, end, block, global_scope) ==
    IF ~(old.kind = "Int" /\ ~old.ret) THEN R(st, NoValue)
    ELSE eval_range_iter(update_entry(st, cursor, ObjInt(old.val[1] + 1)).st,
                         cursor, i + 1, end, block, global_scope)

eval_range_body(body, cursor, i, end, block, global_scope) ==
    eval_range_increment(body.st, Environment_resolve(body.st, cursor).value,
                         cursor, i, end, block, global_scope)

\* the loop with an inclusive end
eval_range_iter_inclusive(st, cursor, i, end, block, global_scope) ==
    IF i > end
    THEN R(Environment_restore(Note(st, "forexit", cursor, NoValue), global_scope), NoValue)
    ELSE eval_range_body(
             eval_block_stmt(Note(st, "iter", cursor, Environment_resolve(st, cursor).value),
                             block),
             cursor, i, end, block, global_scope)

\* the iterations i, i + 1, ... of `for _ in start..end`, then the restore
eval_range_iter(st, cursor, i, end, block, global_scope) ==
    IF i >= end
    THEN R(Environment_restore(Note(st, "forexit", cursor, NoValue), global_scope), NoValue)
    ELSE eval_range_body(
             eval_block_stmt(Note(st, "iter", cursor, Environment_resolve(st, cursor).value),
                             block),
             cursor, i, end, block, global_scope)

eval_range_forloop(st, cursor, start, end, block) ==
    eval_range_iter(
        Note(add_entry(Environment_empty(st, "Loop"), cursor, ObjInt(start), "Int",
                       TRUE).st,
             "for", cursor, ObjRange(start, end, 1)),
        cursor, start, end, block, st.env)

eval_forloop_stmt_iterable(iterable_object, cursor, block) ==
    IF IsNone(iterable_object.val) THEN R(iterable_object.st, NoValue)
    ELSE IF iterable_object.val.kind = "Range" /\ ~iterable_object.val.ret
    THEN eval_range_forloop(iterable_object.st, cursor, iterable_object.val.val[1],
                            iterable_object.val.val[2], block)
    ELSE R(set_type_error(iterable_object.st,
                          <<"for loop works only with range (for now)">>),
           NoValue)

eval_forloop_stmt(st, cursor, iterable, block) ==
    eval_forloop_stmt_iterable(eval_expr(st, iterable), cursor, block)

eval_stmt_match(st, stmt) ==
    CASE stmt.s = "Let" -> R(eval_let_stmt(st, stmt.name, stmt.var_type, stmt.expr), NoValue)
      [] stmt.s = "Func" -> R(eval_func_def(st, stmt.name, stmt.fn), NoValue)
      [] stmt.s = "Return" -> eval_return(st, stmt.expr)
      [] stmt.s = "Expr" -> eval_expr(st, stmt.expr)
      [] stmt.s = "If" ->
           eval_if_stmt(st, stmt.condition, stmt.consequence, stmt.alternative)
      [] stmt.s = "ForLoop" ->
           eval_forloop_stmt(st, stmt.cursor, stmt.iterable, stmt.block)

\* nothing is evaluated once the host has faulted
eval_stmt(st, stmt) ==
    IF st.panic THEN R(st, NoValue)
    ELSE eval_stmt_match(Note(st, "stmt", stmt.s, NoValue), stmt)

-----------------------------------------------------------------------------
(* The programs that are evaluated: every sequence of at most MaxProgram   *)
(* top-level statements drawn from TopStmts.                               *)

IntLit(i) == Literal(ObjInt(i))
StrLit == Literal(ObjString(<<97>>))
Undeclared == ExprStmt(Identifier("y"))

Conditions ==
    {IntLit(0), IntLit(1), Literal(ObjFloat(0, 1)), Literal(ObjFloat(1, 2)),
     Literal(ObjNull), StrLit, Identifier("false"), Identifier("true"),
     Identifier("print"), Identifier("y"),
     InfixExpr(StrLit, "Minus", StrLit)}

Bodies ==
    {<<PrintCall(Identifier("i"))>>,
     <<ExprStmt(Assign("x", InfixExpr(Identifier("x"), "Plus", Identifier("i"))))>>,
     <<Let("z", "", Identifier("i"))>>,
     <<Undeclared, PrintCall(Identifier("i"))>>,
     <<ExprStmt(Assign("i", IntLit(0))), PrintCall(Identifier("i"))>>}

TopStmts ==
    {Let("x", "", IntLit(i)) : i \in 0..MaxInt}
    \cup {Let("x", "Int", StrLit), Let("x", "", StrLit),
          Let("x", "", InfixExpr(StrLit, "Minus", StrLit))}
    \cup {ExprStmt(Assign("x", IntLit(i))) : i \in 0..MaxInt}
    \cup {ExprStmt(Assign("x", StrLit)),
          ExprStmt(Assign("true", Identifier("false"))),
          ExprStmt(Assign("y", IntLit(1)))}
    \cup {ExprStmt(Identifier("x")), Undeclared, PrintCall(Identifier("x")),
          ExprStmt(InfixExpr(Identifier("y"), "Plus",
                             Call(Identifier("print"), <<IntLit(1)>>))),
          ExprStmt(InfixExpr(IntLit(1), "Devide", IntLit(0))),
          ExprStmt(PostfixExpr(Identifier("x"), "Increment")),
          ExprStmt(PrefixExpr("Minus", Identifier("x"))),
          ExprStmt(PrefixExpr("Not", Identifier("x"))),
          ExprStmt(IntLit(1)), Return(IntLit(1)), Return(NoExpr)}
    \cup {Func("f", fn) : fn \in 1..Len(FuncTable)}
    \cup {ExprStmt(Call(Identifier("f"), <<>>))}
    \cup {ForLoop("i", RangeCall(start, end), body) :
            start \in 0..MaxInt, end \in 0..MaxInt, body \in Bodies}
    \cup {ForLoop("i", IntLit(1), <<PrintCall(Identifier("i"))>>)}
    \cup {If(c, <<PrintCall(IntLit(1))>>, alt) :
            c \in Conditions, alt \in {<<>>, <<(<<PrintCall(IntLit(2))>>)>>}}
    \cup {If(IntLit(1), <<Undeclared, PrintCall(IntLit(1))>>, <<>>),
          If(IntLit(1), <<Let("x", "", IntLit(1)), PrintCall(Identifier("x"))>>, <<>>)}

NoStmt == [s |-> "None"]

-----------------------------------------------------------------------------
(* Evaluator::eval.                                                        *)

Init ==
    /\ heap = <<make_global(builtins)>>
    /\ env = 1
    /\ error = NoError
    /\ out = <<>>
    /\ log = <<>>
    /\ output = NoValue
    /\ result = NoValue
    /\ pc = "running"
    /\ n = 0
    /\ last = NoStmt

\* the evaluator state before a top-level statement
St == [heap |-> heap, env |-> env, error |-> error, out |-> out, log |-> <<>>,
       depth |-> 0, overflow_checks |-> TRUE, panic |-> FALSE, overflowed |-> FALSE]

\* the same state in a build without overflow checks
Unchecked == [St EXCEPT !.overflow_checks = FALSE]

\* the loop of eval without its look at the error handler
EvalCheck_unchecked(object) ==
    /\ heap' = object.st.heap
    /\ env' = object.st.env
    /\ error' = object.st.error
    /\ out' = object.st.out
    /\ log' = object.st.log
    /\ IF object.st.panic
       THEN pc' = "panicked" /\ UNCHANGED <<output, result>>
       ELSE pc' = "running" /\ output' = object.val /\ UNCHANGED result

\* one iteration of the loop of eval: the statement is evaluated and the
\* error handler consulted; a host fault ends the process
EvalCheck(object) ==
    /\ heap' = object.st.heap
    /\ env' = object.st.env
    /\ error' = object.st.error
    /\ out' = object.st.out
    /\ log' = object.st.log
    /\ IF object.st.panic
       THEN pc' = "panicked" /\ UNCHANGED <<output, result>>
       ELSE IF has_error(object.st)
       THEN pc' = "aborted" /\ result' = NoValue /\ UNCHANGED output
       ELSE pc' = "running" /\ output' = object.val /\ UNCHANGED result

\* the builds of the evaluator differ once an Int operation leaves the
\* range: `checked` is the statement evaluated with overflow checks
EvalBuilds(checked, stmt) ==
    \E overflow_checks \in (IF checked.st.overflowed THEN BOOLEAN ELSE {TRUE}) :
        EvalCheck(IF overflow_checks THEN checked ELSE eval_stmt(Unchecked, stmt))

Eval(stmt) ==
    /\ pc = "running"
    /\ n < MaxProgram
    /\ EvalBuilds(eval_stmt(St, stmt), stmt)
    /\ n' = n + 1
    /\ last' = stmt

\* the program has no more statements: eval returns output
EvalEnd ==
    /\ pc = "running"
    /\ pc' = "done"
    /\ result' = output
    /\ UNCHANGED <<heap, env, error, out, log, output, n, last>>

Next == (\E stmt \in TopStmts : Eval(stmt)) \/ EvalEnd

Spec == Init /\ [][Next]_vars

-----------------------------------------------------------------------------
(* Properties of eval (mod.rs 30-41).                                      *)

\* what a top-level statement of one of the simplest forms is worth
IsSimple(stmt) ==
    \/ stmt.s \in {"Let", "Func"}
    \/ stmt.s \in {"Expr", "Return"} /\ stmt.expr.e = "Literal"
    \/ stmt.s = "Expr" /\ stmt.expr.e = "Identifier"

SimpleValue(hp, h, stmt) ==
    CASE stmt.s \in {"Let", "Func"} -> NoValue
      [] stmt.s = "Return" -> RetVal(stmt.expr.literal)
      [] stmt.s = "Expr" /\ stmt.expr.e = "Literal" -> stmt.expr.literal
      [] stmt.s = "Expr" /\ stmt.expr.e = "Identifier" ->
           resolve(hp, h, stmt.expr.name).value

\* C1: once the error handler holds a diagnostic after a top-level
\* statement, no later top-level statement is executed and eval returns no
\* result; when no statement recorded an error, eval returns the value of
\* the last top-level statement.
C1_EvalStopsAtFirstError ==
    [][/\ (error # NoError =>
             /\ UNCHANGED <<heap, env, error, out, n, last>>
             /\ result' = NoValue
             /\ pc' \notin {"running", "done"})
       /\ (error' # NoError /\ pc' # "panicked" =>
             pc' = "aborted" /\ result' = NoValue)
       /\ (pc' = "done" =>
             /\ error' = NoError
             /\ result' = output
             /\ (n' = 0 => result' = NoValue)
             /\ (n' > 0 /\ IsSimple(last') => result' = SimpleValue(heap', env', last')))]_vars

\* an error after the first statement of a program that has more to run
C1_Witness ==
    /\ pc = "aborted"
    /\ n = 1
    /\ n < MaxProgram
    /\ error.kind = "NameError"
    /\ result = NoValue

-----------------------------------------------------------------------------
(* Properties of one top-level statement, read off the log of its events.  *)

\* events i <= j of the log belong to one activation of a function
SameCall(i, j) ==
    /\ log[i].call = log[j].call
    /\ \A k \in i..(j - 1) : ~(log[k].ev = "callexit" /\ log[k].call = log[i].call)

\* iterations j0 < j belong to one run of one for loop
SameLoop(j0, j) ==
    /\ log[j0].ev = "iter" /\ log[j].ev = "iter"
    /\ log[j0].scope = log[j].scope
    /\ SameCall(j0, j)
    /\ \A k \in j0..j : ~(log[k].ev = "for" /\ log[k].scope = log[j].scope)

\* C2: a return executed inside a block nested in a function body ends the
\* function: no later statement of that activation is executed.
C2_ReturnEndsFunction ==
    \A i, j \in DOMAIN log :
        (/\ i < j
         /\ log[i].ev = "return"
         /\ log[i].call >= 1
         /\ SameCall(i, j)) => log[j].ev # "stmt"

\* C3: a return executed by the body of a for loop inside a function ends
\* the loop, no later iteration runs, and the returned value is the value
\* of the function call.
C3_ReturnEndsLoop ==
    \A i \in DOMAIN log :
        (/\ log[i].ev = "return"
         /\ log[i].call >= 1
         /\ \E j0 \in 1..i : log[j0].ev = "iter" /\ SameCall(j0, i)
                              /\ log[j0].scope <= log[i].scope) =>
            /\ \A j0 \in 1..i, j \in i..Len(log) :
                   ~(SameLoop(j0, j) /\ SameCall(j0, i) /\ SameCall(i, j)
                     /\ log[j0].scope <= log[i].scope)
            /\ \A c \in i..Len(log) :
                   (log[c].ev = "callexit" /\ SameCall(i, c)) =>
                       log[c].val = log[i].val

\* the iterations that the loop announced at f ran until its exit at e
Iterations(f, e) ==
    SelectSeq(SubSeq(log, f, e),
              LAMBDA event : event.ev = "iter" /\ event.scope = log[f].scope
                             /\ event.call = log[f].call)

\* the loop announced at f ran out of its range at e
LoopRun(f, e) ==
    /\ f < e
    /\ log[f].ev = "for"
    /\ log[e].ev = "forexit"
    /\ log[e].scope = log[f].scope
    /\ log[e].call = log[f].call
    /\ \A k \in (f + 1)..(e - 1) :
           ~(log[k].ev \in {"for", "forexit"} /\ log[k].scope = log[f].scope
             /\ log[k].call = log[f].call)

Max(a, b) == IF a >= b THEN a ELSE b

\* C4: a for loop over range(start, end) whose body neither assigns the
\* cursor nor records an error runs its body max(0, end - start) times, the
\* cursor being start + i in iteration i.
C4_RangeLoopCount ==
    \A f, e \in DOMAIN log :
        (/\ LoopRun(f, e)
         /\ ~log[e].err
         /\ \A k \in f..e : ~(log[k].ev = "assign" /\ log[k].name = log[f].name)) =>
            /\ Len(Iterations(f, e)) = Max(0, log[f].val.val[2] - log[f].val.val[1])
            /\ \A i \in 1..Len(Iterations(f, e)) :
                   Iterations(f, e)[i].val = ObjInt(log[f].val.val[1] + i - 1)

\* a loop of MaxInt iterations has run to its end
C4_Witness ==
    \E f, e \in DOMAIN log :
        /\ LoopRun(f, e)
        /\ ~log[e].err
        /\ \A k \in f..e : ~(log[k].ev = "assign" /\ log[k].name = log[f].name)
        /\ log[f].val = ObjRange(0, MaxInt, 1)
        /\ Len(Iterations(f, e)) = MaxInt
        /\ MaxInt >= 2

\* C5: once an error has been recorded nothing further is evaluated: no
\* statement, expression or loop iteration starts while an error is pending.
C5_NothingAfterError ==
    \A j \in DOMAIN log :
        log[j].ev \in {"stmt", "expr", "iter"} => ~log[j].err

-----------------------------------------------------------------------------
(* Infix expressions: programs whose statements are `lhs op rhs` for every *)
(* operator and every pair of operands of every type a program can make.   *)

Operands ==
    {IntLit(0), IntLit(1), Literal(ObjFloat(1, 2)), StrLit,
     Identifier("true"), Identifier("null"), Identifier("print"),
     Identifier("len"), RangeCall(0, 1),
     Call(Identifier("typeof"), <<IntLit(1)>>)}

EvalInfix(lhs, infix, rhs) == Eval(ExprStmt(InfixExpr(lhs, infix, rhs)))

NextInfix ==
    \/ \E lhs \in Operands, infix \in Infix, rhs \in Operands :
           EvalInfix(lhs, infix, rhs)
    \/ EvalEnd

SpecInfix == Init /\ [][NextInfix]_vars

\* the last statement was an infix expression on two values
InfixDone == n >= 1 /\ pc # "panicked" /\ last.s = "Expr" /\ last.expr.e = "Infix"

\* the types of the values its operands evaluate to
LhsType == object_to_type(eval_expr(St, last.expr.lhs).val)
RhsType == object_to_type(eval_expr(St, last.expr.rhs).val)

\* what the infix expressions of the last statement yielded
Yielded == {log[j].val : j \in {k \in DOMAIN log : log[k].ev = "infix"}}

\* C6: an infix expression whose operand values have different types
\* records a TypeError naming both types and yields no value, whatever the
\* operator.
C6_MixedTypesTypeError ==
    (InfixDone /\ LhsType # RhsType) =>
        /\ error.kind = "TypeError"
        /\ \E k, l \in DOMAIN error.msg :
               k < l /\ error.msg[k] = LhsType /\ error.msg[l] = RhsType
        /\ Yielded = {NoValue}
        /\ pc = "aborted"
        /\ result = NoValue

\* an Int and a Float have been added
C6_Witness ==
    /\ InfixDone
    /\ LhsType = "Int"
    /\ RhsType = "Float"
    /\ last.expr.infix = "Plus"
    /\ error.kind = "TypeError"

\* C7: an infix expression on two values of one type other than Int,
\* Float, String and Boolean records a TypeError.
C7_UnsupportedTypeError ==
    (InfixDone /\ LhsType = RhsType
     /\ LhsType \notin {"Int", "Float", "String", "Boolean"}) =>
        /\ error.kind = "TypeError"
        /\ Yielded = {NoValue}

\* C8: an infix expression that records an error yields no value.
C8_ErrorYieldsNoValue ==
    (InfixDone /\ error # NoError) => Yielded = {NoValue}

-----------------------------------------------------------------------------
(* Scopes: the evaluator at any point of a program, inside at most         *)
(* MaxDepth nested child scopes (loop bodies, function bodies), declaring  *)
(* and assigning names.  Inside a child scope the evaluation goes on after *)
(* an error; at the top level eval stops.                                  *)

Declared == {IntLit(0), IntLit(1), StrLit}
Assigned == Declared \cup {Identifier("false"), Identifier("print")}

ScopeStep(object, stmt) ==
    /\ pc = "running"
    /\ heap' = object.st.heap
    /\ env' = object.st.env
    /\ error' = object.st.error
    /\ log' = object.st.log
    /\ pc' = IF has_error(object.st) /\ object.st.env = 1 THEN "aborted" ELSE "running"
    /\ last' = stmt
    /\ UNCHANGED <<out, output, result, n>>

ScopeEval(stmt) == ScopeStep(eval_stmt(St, stmt), stmt)

Declare(name, expr) == ScopeEval(Let(name, "", expr))

DeclareFunc(name) == ScopeEval(Func(name, Len(FuncTable)))

AssignTo(name, expr) == ScopeEval(ExprStmt(Assign(name, expr)))

\* for i in range(0, 2) { name = i }
LoopAssign(name) ==
    ScopeEval(ForLoop("i", RangeCall(0, 2), <<ExprStmt(Assign(name, Identifier("i")))>>))

EnterScope ==
    /\ env - 1 < MaxDepth
    /\ ScopeStep(R(Environment_empty(St, "Loop"), NoValue), [s |-> "Enter"])

LeaveScope ==
    /\ env > 1
    /\ ScopeStep(R(Environment_restore(St, heap[env].parent), NoValue), [s |-> "Leave"])

NextScope ==
    \/ \E expr \in Declared : Declare("x", expr)
    \/ DeclareFunc("x")
    \/ \E name \in {"x", "y", "true"}, expr \in Assigned : AssignTo(name, expr)
    \/ LoopAssign("x")
    \/ EnterScope
    \/ LeaveScope

SpecScope == Init /\ [][NextScope]_vars

\* the last step recorded an error of this kind
Recorded(kind) == \E j \in DOMAIN log : log[j].ev = "error" /\ log[j].name = kind

\* C9: declaring a name that the current scope already binds is rejected
\* with a NameError and changes no binding; declaring a name that only outer
\* scopes bind succeeds, after which the name resolves in that scope to the
\* new binding while every outer scope is unchanged.
C9_RedeclareRejectedChildShadows ==
    [][/\ (last'.s = "Let" =>
             IF last'.name \in DOMAIN heap[env].store
             THEN /\ heap' = heap
                  /\ env' = env
                  /\ Recorded("NameError")'
             ELSE /\ env' = env
                  /\ Len(heap') = Len(heap)
                  /\ \A h \in 1..(env - 1) : heap'[h] = heap[h]
                  /\ heap'[env].store =
                        (last'.name :> ObjectInfo(last'.expr.literal, TRUE,
                                                  object_to_type(last'.expr.literal)))
                        @@ heap[env].store
                  /\ resolve(heap', env', last'.name).value = last'.expr.literal
                  /\ ~Recorded("NameError")')
       /\ \A h \in DOMAIN heap' :
              \A name \in DOMAIN heap'[h].store :
                  resolve(heap', h, name) = heap'[h].store[name]]_vars

\* a child scope shadows the binding of its parent, and a second
\* declaration in the child has just been rejected
C9_Witness ==
    /\ env >= 2
    /\ last.s = "Let"
    /\ Recorded("NameError")
    /\ "x" \in DOMAIN heap[env].store
    /\ "x" \in DOMAIN heap[env - 1].store
    /\ heap[env].store["x"] # heap[env - 1].store["x"]
    /\ heap[env].store["x"].value # last.expr.literal

\* C10: an assignment to an undeclared name records a NameError, to a name
\* bound with another type a TypeError, and to a name whose nearest binding
\* has that type but is immutable a NameError; no binding changes.
C10_AssignFailures ==
    [][(last'.s = "Expr" /\ last'.expr.e = "Assign") =>
          /\ (resolve(heap, env, last'.expr.name) = NoInfo =>
                 Recorded("NameError")' /\ heap' = heap)
          /\ ((/\ resolve(heap, env, last'.expr.name) # NoInfo
               /\ resolve(heap, env, last'.expr.name).type_ #
                      object_to_type(eval_expr(St, last'.expr.expr).val)) =>
                 Recorded("TypeError")' /\ heap' = heap)
          /\ ((/\ resolve(heap, env, last'.expr.name) # NoInfo
               /\ resolve(heap, env, last'.expr.name).type_ =
                      object_to_type(eval_expr(St, last'.expr.expr).val)
               /\ ~resolve(heap, env, last'.expr.name).is_assignable) =>
                 Recorded("NameError")' /\ heap' = heap)]_vars

\* inside a child scope, a value of the right type has been assigned to a
\* name whose nearest binding, in an outer scope, is immutable
C10_Witness ==
    /\ env >= 2
    /\ last.s = "Expr"
    /\ last.expr.e = "Assign"
    /\ last.expr.name = "x"
    /\ "x" \notin DOMAIN heap[env].store
    /\ resolve(heap, env, "x") # NoInfo
    /\ ~resolve(heap, env, "x").is_assignable
    /\ resolve(heap, env, "x").type_ = object_to_type(eval_expr(St, last.expr.expr).val)
    /\ Recorded("NameError")

RECURSIVE NearestScope(_, _, _)
\* the innermost scope of the chain from h that binds the name, 0 if none
NearestScope(hp, h, name) ==
    IF name \in DOMAIN hp[h].store THEN h
    ELSE IF hp[h].parent = 0 THEN 0
    ELSE NearestScope(hp, hp[h].parent, name)

\* the step assigns to the name: directly, or in the body of a loop
IsAssign(stmt) == stmt.s = "Expr" /\ stmt.expr.e = "Assign"
IsLoopAssign(stmt) == stmt.s = "ForLoop" /\ IsAssign(stmt.block[1])
Target(stmt) == IF IsAssign(stmt) THEN stmt.expr.name ELSE stmt.block[1].expr.name

\* the value a step that assigns leaves in the binding: the value of the
\* right-hand side, for the loop the cursor of its last iteration
NewValue(stmt) ==
    IF IsAssign(stmt) THEN eval_expr(St, stmt.expr.expr).val
    ELSE ObjInt(stmt.iterable.args[2].literal.val[1] - 1)

\* the nearest binding of the name is mutable and holds a value of the type
Assignable(stmt, type_) ==
    /\ NearestScope(heap, env, Target(stmt)) # 0
    /\ heap[NearestScope(heap, env, Target(stmt))].store[Target(stmt)].is_assignable
    /\ heap[NearestScope(heap, env, Target(stmt))].store[Target(stmt)].type_ = type_

-----------------------------------------------------------------------------
(* The type tags of the bindings.                                          *)

\* C12: in every state that let declarations, assignments, loop cursor
\* increments and the built-in table lead to, the type tag stored with a
\* binding is the type of the value the binding holds: between the
\* statements of a program, and inside one whenever a binding is written.
C12_TagsMatchValues ==
    /\ \A h \in DOMAIN heap :
           \A name \in DOMAIN heap[h].store :
               heap[h].store[name].type_ = object_to_type(heap[h].store[name].value)
    /\ \A j \in DOMAIN log :
           log[j].ev = "bind" => log[j].name = object_to_type(log[j].val)

\* a loop has incremented its cursor and assigned to a variable declared
\* before it
C12_Witness ==
    /\ last.s = "ForLoop"
    /\ "x" \in DOMAIN heap[1].store
    /\ \E j \in DOMAIN log : log[j].ev = "assign" /\ log[j].name = "x"
    /\ \E j \in DOMAIN log : log[j].ev = "iter" /\ log[j].val # ObjInt(0)
    /\ \E j \in DOMAIN log : log[j].ev = "forexit" /\ ~log[j].err

-----------------------------------------------------------------------------
(* The scopes of if and for.                                               *)

\* C13: the blocks of an if statement and the body of a for loop run in a
\* child scope that is discarded when the statement finishes: afterwards
\* the current scope is the one from before, and it declares no name that
\* it did not declare before (not the cursor, not a name the block
\* declared with let).
C13_BlockScopeDiscarded ==
    [][last'.s \in {"If", "ForLoop"} =>
          /\ \A j \in DOMAIN log' :
                 log'[j].ev \in {"then", "else", "for"} => log'[j].scope > env
          /\ env' = env
          /\ Len(heap') = Len(heap)
          /\ DOMAIN heap'[env'].store \subseteq DOMAIN heap[env].store]_vars

-----------------------------------------------------------------------------
(* The branches of if.                                                     *)

\* the last statement was an if whose condition has a value
IfDone == n >= 1 /\ last.s = "If" /\ IsSome(eval_expr(St, last.condition).val)

Falsy == {ObjNull, ObjBoolean(FALSE), ObjInt(0), ObjFloat(0, 1)}

\* how often the last statement entered a branch
Entered(branch) == Cardinality({j \in DOMAIN log : log[j].ev = branch})

\* C14: an if statement runs its consequence exactly when the value of the
\* condition is not one of Null, false, Int 0 and Float 0.0; otherwise it
\* runs the alternative if there is one and else yields no value; it never
\* runs both.
C14_IfFollowsTruthiness ==
    IfDone =>
        /\ Entered("then") + Entered("else") <= 1
        /\ Entered("then") = 1 <=> eval_expr(St, last.condition).val \notin Falsy
        /\ Entered("else") = 1 <=>
               (eval_expr(St, last.condition).val \in Falsy /\ last.alternative # <<>>)
        /\ (eval_expr(St, last.condition).val \in Falsy /\ last.alternative = <<>>
            /\ pc = "running") => output = NoValue

\* if (0) { print(1) } else { print(2) } has printed 2
C14_Witness ==
    /\ IfDone
    /\ n = 1
    /\ last.condition = IntLit(0)
    /\ last.alternative # <<>>
    /\ out = <<(<<ObjInt(2)>>)>>

-----------------------------------------------------------------------------
(* Postfix expressions: programs that declare x and apply ++ and -- to     *)
(* literals of every type, to both ends of the Int range, to x and to an   *)
(* undeclared name.                                                        *)

PostfixDeclared == {IntLit(1), IntLit(I64Max), IntLit(I64Min), StrLit}

PostfixOperands ==
    {IntLit(0), IntLit(1), IntLit(I64Max), IntLit(I64Min),
     Literal(ObjFloat(1, 2)), StrLit, Identifier("true"), Identifier("null"),
     Identifier("print"), Identifier("x"), Identifier("y")}

DeclareOperand(expr) == Eval(Let("x", "", expr))

EvalPostfix(expr, postfix) == Eval(ExprStmt(PostfixExpr(expr, postfix)))

NextPostfix ==
    \/ \E expr \in PostfixDeclared : DeclareOperand(expr)
    \/ \E expr \in PostfixOperands, postfix \in Postfix : EvalPostfix(expr, postfix)
    \/ EvalEnd

SpecPostfix == Init /\ [][NextPostfix]_vars

\* the step evaluates a postfix expression
PostfixStep == n' = n + 1 /\ last'.s = "Expr" /\ last'.expr.e = "Postfix"

\* the value of its operand, in the state before the step
Operand == eval_expr(St, last'.expr.expr).val

\* the integer one greater (++) or one less (--) than the operand
Exact == Operand.val[1] + (IF last'.expr.postfix = "Increment" THEN 1 ELSE -1)

\* C15 as stated: e++ / e-- on an Int yields the Int one greater / one
\* less and changes no binding; on a value of another type it records a
\* TypeError and yields no value.
C15_PostfixPure ==
    [][(PostfixStep /\ IsSome(Operand)) =>
          /\ heap' = heap
          /\ env' = env
          /\ Operand.kind = "Int" =>
                 /\ pc' = "running"
                 /\ error' = NoError
                 /\ output' = ObjInt(Exact)
                 /\ \A j \in DOMAIN log' :
                        log'[j].ev = "postfix" => log'[j].val = ObjInt(Exact)
          /\ Operand.kind # "Int" =>
                 /\ pc' = "aborted"
                 /\ error'.kind = "TypeError"
                 /\ result' = NoValue
                 /\ \A j \in DOMAIN log' :
                        log'[j].ev = "postfix" => IsNone(log'[j].val)]_vars

\* C15, amended: e++ / e-- on an Int whose successor / predecessor is an
\* Int yields that Int; it changes no binding, whatever the operand; on a
\* value of another type it records a TypeError and yields no value.
C15_PostfixPureInRange ==
    [][(PostfixStep /\ IsSome(Operand)) =>
          /\ heap' = heap
          /\ env' = env
          /\ (Operand.kind = "Int" /\ Exact \in I64Min..I64Max) =>
                 /\ pc' = "running"
                 /\ error' = NoError
                 /\ output' = ObjInt(Exact)
                 /\ \A j \in DOMAIN log' :
                        log'[j].ev = "postfix" => log'[j].val = ObjInt(Exact)
          /\ Operand.kind # "Int" =>
                 /\ pc' = "aborted"
                 /\ error'.kind = "TypeError"
                 /\ result' = NoValue
                 /\ \A j \in DOMAIN log' :
                        log'[j].ev = "postfix" => IsNone(log'[j].val)]_vars

\* let x = 1 and then x++ has yielded 2 while x is still 1
C15_Witness ==
    /\ n = 2
    /\ last = ExprStmt(PostfixExpr(Identifier("x"), "Increment"))
    /\ pc = "running"
    /\ output = ObjInt(2)
    /\ "x" \in DOMAIN heap[1].store
    /\ heap[1].store["x"].value = ObjInt(1)
    /\ \E j \in DOMAIN log : log[j].ev = "postfix" /\ log[j].val = ObjInt(2)

====
